---- MODULE Spec2Model ----
(***************************************************************************)
(* Model of the milk ledger of src/app.py: the three SQLite tables that    *)
(* init_database creates (users, milk_records, monthly_summary) and the    *)
(* functions that read and write them.  Every function opens its own       *)
(* connection, runs its statements and commits once before returning, so   *)
(* each call is one atomic action.  The database file is taken to be       *)
(* available (get_db_connection returns a connection).                     *)
(*                                                                         *)
(* Amounts are whole rupees.  A string of decimal digits is the pair of    *)
(* its length and its value: "02" is [len |-> 2, val |-> 2].  A stored     *)
(* DATE is the ISO text YYYY-MM-DD the sqlite3 date adapter writes, kept   *)
(* as the number its eight digits spell.  A table is the sequence of its   *)
(* rows in insertion order.                                                *)
(***************************************************************************)
EXTENDS Integers, Sequences, FiniteSets, TLC

VARIABLES users, milk_records, milk_seq, monthly_summary, ret, session, writer

vars == <<users, milk_records, milk_seq, monthly_summary, ret, session, writer>>

(***************************************************************************)
(* Bounds and the small sets the calls draw their arguments from.          *)
(***************************************************************************)
\* the largest id the AUTOINCREMENT counter of milk_records may reach: room for
\* two seed calls of any two months
MaxRecordId == 60

Usernames == {"demo", "amy"}
Secrets == {"demo", "pw"}
DefaultCostArgs == {50, 104}
UserIdArgs == {1, 2}
\* <<user_id, month, year>> arguments of seed: February of a common and of a
\* leap year, April, a year monthly_summary rejects, a month that does not
\* exist, April of a second account, and the years next to the first and the
\* last year a date can have
SeedArgs == {<<1, 2, 2023>>, <<1, 2, 2024>>, <<1, 4, 2024>>, <<1, 4, 2019>>,
             <<1, 13, 2024>>, <<2, 4, 2024>>, <<1, 4, 0>>, <<1, 4, 10000>>}
\* <<user_id, month, year>> arguments of summarize: a February that has a
\* namesake in another year, an April that another account has too, the year
\* and the month monthly_summary rejects
SummaryArgs == {<<1, 2, 2023>>, <<1, 4, 2024>>, <<1, 4, 2019>>, <<1, 13, 2024>>}
\* <<user_id, month, year>> arguments of the seeds two sessions run at the same
\* time: the two Februaries and the month that does not exist
SessionSeedArgs == {<<1, 2, 2023>>, <<1, 2, 2024>>, <<1, 13, 2024>>}
\* record ids: one that never exists, the first row of the first seeded month, a
\* row of the second
RecordIdArgs == {0, 1, 31}
BaseCostArgs == {40}
AdditionalCostArgs == {5}
NotesArgs == {"late"}
\* costs a caller of update_milk_record may pass: the function takes any number,
\* only the page's number inputs have min_value = 0.0
AnyBaseCostArgs == {-40, 40}
AnyAdditionalCostArgs == {-5, 5}

(***************************************************************************)
(* Python and SQL values.                                                  *)
(***************************************************************************)
PyNone == [tag |-> "None"]
PyBool(b) == [tag |-> "bool", val |-> b]
PyInt(i) == [tag |-> "int", val |-> i]
PyDict(td, mt, ta) ==
    [tag |-> "dict", total_days |-> td, milk_taken_days |-> mt, total_amount |-> ta]

\* SQL NULL in the notes column
NULL == "NULL"

\* base_cost argument of initialize_month_records: its one caller passes none
SeedBaseCostArgs == {PyNone}

(***************************************************************************)
(* calendar.monthrange, datetime.date and the text functions.              *)
(***************************************************************************)
mdays == <<31, 28, 31, 30, 31, 30, 31, 31, 30, 31, 30, 31>>

isleap(year) == year % 4 = 0 /\ (year % 100 # 0 \/ year % 400 = 0)

\* a month length that forgets leap years
monthrange_common(year, month) == mdays[month]

\* calendar.monthrange(year, month)[1]; raises IllegalMonthError outside 1..12
monthrange(year, month) == mdays[month] + (IF month = 2 /\ isleap(year) THEN 1 ELSE 0)

MINYEAR == 1
MAXYEAR == 9999

\* datetime(year, month, day).date() as the date adapter stores it: YYYY-MM-DD
isoformat(year, month, day) == year * 10000 + month * 100 + day

\* strftime('%m', record_date) and strftime('%Y', record_date): two and four digits
strftime_m(record_date) == [len |-> 2, val |-> (record_date \div 100) % 100]
strftime_Y(record_date) == [len |-> 4, val |-> record_date \div 10000]

RECURSIVE ndigits(_)
ndigits(n) == IF n < 10 THEN 1 ELSE 1 + ndigits(n \div 10)

\* str(n) for n >= 0: the decimal digits without padding
str(n) == [len |-> ndigits(n), val |-> n]

\* f"{n:02d}" for n >= 0: padded with a zero to two digits
fmt02d(n) == [len |-> IF n < 10 THEN 2 ELSE ndigits(n), val |-> n]

(***************************************************************************)
(* The tables.                                                             *)
(*   users            rows [user_id, username, password_hash,              *)
(*                          base_milk_cost]                                *)
(*   milk_records     rows [record_id, user_id, record_date, is_taken,     *)
(*                          base_cost, additional_cost, total_cost, notes] *)
(*   milk_seq         the sqlite_sequence entry of milk_records            *)
(*   monthly_summary  rows [user_id, month, year, total_days,              *)
(*                          milk_taken_days, total_amount]                 *)
(*   ret              the last call: its name, arguments and return value  *)
(*   session          for each browser session, how far its call of         *)
(*                    initialize_month_records has run, statement by        *)
(*                    statement, and the transaction of its connection      *)
(*   writer           the session whose connection holds the write lock of  *)
(*                    the database file, or NoWriter                        *)
(***************************************************************************)

\* a total that forgets the taken flag
total_cost_ungated(is_taken, base_cost, additional_cost) == base_cost + additional_cost

\* the generated column total_cost of milk_records
total_cost_generated(is_taken, base_cost, additional_cost) ==
    IF is_taken = 1 THEN base_cost + additional_cost ELSE 0

\* one row of milk_records as the store writes it
milk_row(record_id, user_id, record_date, is_taken, base_cost, additional_cost, notes) ==
    [record_id |-> record_id, user_id |-> user_id, record_date |-> record_date,
     is_taken |-> is_taken, base_cost |-> base_cost,
     additional_cost |-> additional_cost,
     total_cost |-> total_cost_generated(is_taken, base_cost, additional_cost),
     notes |-> notes]

\* a table without the uniqueness constraint
milk_no_unique(recs, user_id, record_date) == FALSE

\* UNIQUE(user_id, record_date)
milk_unique_conflict(recs, user_id, record_date) ==
    \E i \in 1..Len(recs) : recs[i].user_id = user_id /\ recs[i].record_date = record_date

\* the row INSERT OR IGNORE INTO milk_records (user_id, record_date, is_taken,
\* base_cost, additional_cost) VALUES (?, ?, 1, ?, 0.00) writes for a day; notes is
\* not named and stays NULL
seed_row(record_id, user_id, month, year, day, base_cost) ==
    milk_row(record_id, user_id, isoformat(year, month, day), 1, base_cost, 0, NULL)

\* the days of the loop  for day in range(1, num_days + 1)  whose insert is not
\* ignored: the days of one call are distinct dates, so an insert can only
\* conflict with a row that was there before the call
inserted_days(recs, user_id, month, year, num_days) ==
    SelectSeq([day \in 1..num_days |-> day],
              LAMBDA day : ~milk_unique_conflict(recs, user_id, isoformat(year, month, day)))

\* INSERT OR REPLACE in place of INSERT OR IGNORE: the rows of the month are
\* written afresh
seed_loop_replace(db, user_id, month, year, base_cost, num_days) ==
    [recs |-> SelectSeq(db.recs,
                        LAMBDA r : \A day \in 1..num_days :
                            ~(r.user_id = user_id
                              /\ r.record_date = isoformat(year, month, day)))
              \o [day \in 1..num_days |->
                    seed_row(db.seq + day, user_id, month, year, day, base_cost)],
     seq |-> db.seq + num_days]

\* the table and its sqlite_sequence entry after the loop: the AUTOINCREMENT id
\* is drawn before the uniqueness check, so an ignored insert consumes one too
\* and the insert of day d gets id seq + d
seed_loop(db, user_id, month, year, base_cost, num_days) ==
    LET days == inserted_days(db.recs, user_id, month, year, num_days) IN
    [recs |-> db.recs \o [i \in 1..Len(days) |->
                             seed_row(db.seq + days[i], user_id, month, year, days[i],
                                      base_cost)],
     seq |-> db.seq + num_days]

\* a WHERE clause that forgets the year
month_rows_any_year(recs, user_id, month, year) ==
    SelectSeq(recs, LAMBDA r : /\ r.user_id = user_id
                               /\ strftime_m(r.record_date) = fmt02d(month))

\* the rows a WHERE user_id = ? AND strftime('%m', ..) = ? AND strftime('%Y', ..) = ?
\* selects, with the parameters (user_id, f"{month:02d}", str(year))
month_rows(recs, user_id, month, year) ==
    SelectSeq(recs, LAMBDA r : /\ r.user_id = user_id
                               /\ strftime_m(r.record_date) = fmt02d(month)
                               /\ strftime_Y(r.record_date) = str(year))

RECURSIVE sum_range(_, _, _)
\* vals[lo] + .. + vals[hi]
sum_range(vals, lo, hi) ==
    IF lo > hi THEN 0
    ELSE IF lo = hi THEN vals[lo]
    ELSE LET mid == (lo + hi) \div 2 IN
         sum_range(vals, lo, mid) + sum_range(vals, mid + 1, hi)

\* SUM over the values an expression takes on the selected rows: NULL over no rows
sql_sum(vals) ==
    IF vals = <<>> THEN [null |-> TRUE, val |-> 0]
    ELSE [null |-> FALSE, val |-> sum_range(vals, 1, Len(vals))]

\* CASE WHEN is_taken = 1 THEN 1 ELSE 0 END
case_taken_one(r) == IF r.is_taken = 1 THEN 1 ELSE 0

\* a sum that forgets the taken flag
case_any_cost(r) == r.base_cost + r.additional_cost

\* CASE WHEN is_taken = 1 THEN base_cost + additional_cost ELSE 0 END
case_taken_cost(r) == IF r.is_taken = 1 THEN r.base_cost + r.additional_cost ELSE 0

\* Python's  x or 0
or0(x) == IF x.null \/ x.val = 0 THEN 0 ELSE x.val

\* the SELECT COUNT(*), SUM(..), SUM(..) of calculate_monthly_summary
aggregate(recs, user_id, month, year) ==
    LET rows == month_rows(recs, user_id, month, year) IN
    [total_days |-> [null |-> FALSE, val |-> Len(rows)],
     milk_taken_days |-> sql_sum([i \in 1..Len(rows) |-> case_taken_one(rows[i])]),
     total_amount |-> sql_sum([i \in 1..Len(rows) |-> case_taken_cost(rows[i])])]

\* CHECK (month BETWEEN 1 AND 12), CHECK (year BETWEEN 2020 AND 2100)
summary_checks(month, year) ==
    month >= 1 /\ month <= 12 /\ year >= 2020 /\ year <= 2100

\* INSERT OR IGNORE in place of the upsert: a stored summary is never replaced
insert_summary_or_ignore(table, row) ==
    IF \E s \in table : s.user_id = row.user_id /\ s.month = row.month /\ s.year = row.year
    THEN table ELSE table \cup {row}

\* INSERT .. ON CONFLICT(user_id, month, year) DO UPDATE SET ..
upsert_summary(table, row) ==
    {s \in table : ~(s.user_id = row.user_id /\ s.month = row.month /\ s.year = row.year)}
        \cup {row}

\* the browser sessions, each running the script in a thread of its own with a
\* connection of its own
Sessions == {"s1", "s2"}
NoWriter == "none"

\* a session that is in no call
idle ==
    [pc |-> "idle", user_id |-> 0, month |-> 0, year |-> 0, base_cost |-> 0,
     num_days |-> 0, day |-> 0, rows |-> <<>>, seq |-> 0, waited |-> FALSE,
     result |-> PyNone, error |-> "none"]

\* a session whose call has returned: True, or False from the except branch
\* with the exception it caught
returned(c, result, error) ==
    [idle EXCEPT !.pc = "returned", !.user_id = c.user_id, !.month = c.month,
                 !.year = c.year, !.waited = c.waited, !.result = PyBool(result),
                 !.error = error]

\* a plain INSERT in the loop: a row that exists raises IntegrityError
seed_insert_plain(view, seq, user_id, month, year, day, base_cost) ==
    IF milk_unique_conflict(view, user_id, isoformat(year, month, day))
    THEN [rows |-> <<>>, seq |-> seq, error |-> "IntegrityError"]
    ELSE [rows |-> <<seed_row(seq + 1, user_id, month, year, day, base_cost)>>,
          seq |-> seq + 1, error |-> "none"]

\* one INSERT OR IGNORE of the loop, run on what the connection sees (the table
\* and the rows of its own transaction): the rows it adds, the counter of ids
\* after it and the exception it raises
seed_insert(view, seq, user_id, month, year, day, base_cost) ==
    [rows |-> IF milk_unique_conflict(view, user_id, isoformat(year, month, day))
              THEN <<>>
              ELSE <<seed_row(seq + 1, user_id, month, year, day, base_cost)>>,
     seq |-> seq + 1, error |-> "none"]

\* the id AUTOINCREMENT gives the next users row (no row is ever deleted)
next_user_id == Cardinality(users) + 1

Init ==
    /\ users = {[user_id |-> 1, username |-> "demo", password_hash |-> "demo",
                 base_milk_cost |-> 104]}
    /\ milk_records = <<>>
    /\ milk_seq = 0
    /\ monthly_summary = {}
    /\ ret = [op |-> "init_database", args |-> <<>>, result |-> PyNone]
    /\ session = [s \in Sessions |-> idle]
    /\ writer = NoWriter

(***************************************************************************)
(* Account store.                                                          *)
(***************************************************************************)
\* a login that looks at the username only
authenticate_any_password(username, password) ==
    /\ ret' = [op |-> "authenticate",
               args |-> [username |-> username, password |-> password],
               result |-> IF \E u \in users : u.username = username
                          THEN PyInt((CHOOSE u \in users : u.username = username).user_id)
                          ELSE PyNone]
    /\ UNCHANGED <<users, milk_records, milk_seq, monthly_summary, session, writer>>

authenticate(username, password) ==
    /\ ret' = [op |-> "authenticate",
               args |-> [username |-> username, password |-> password],
               result |-> IF \E u \in users : u.username = username
                                              /\ u.password_hash = password
                          THEN PyInt((CHOOSE u \in users : u.username = username).user_id)
                          ELSE PyNone]
    /\ UNCHANGED <<users, milk_records, milk_seq, monthly_summary, session, writer>>

\* a change of the default cost that reprices the account's records too
update_base_milk_cost_cascade(user_id, new_cost) ==
    /\ users' = {IF u.user_id = user_id THEN [u EXCEPT !.base_milk_cost = new_cost] ELSE u
                 : u \in users}
    /\ milk_records' =
         [i \in 1..Len(milk_records) |->
            LET r == milk_records[i] IN
            IF r.user_id = user_id
            THEN milk_row(r.record_id, r.user_id, r.record_date, r.is_taken, new_cost,
                          r.additional_cost, r.notes)
            ELSE r]
    /\ ret' = [op |-> "update_base_milk_cost",
               args |-> [user_id |-> user_id, new_cost |-> new_cost],
               result |-> PyBool(TRUE)]
    /\ UNCHANGED <<milk_seq, monthly_summary, session, writer>>

update_base_milk_cost(user_id, new_cost) ==
    /\ users' = {IF u.user_id = user_id THEN [u EXCEPT !.base_milk_cost = new_cost] ELSE u
                 : u \in users}
    /\ ret' = [op |-> "update_base_milk_cost",
               args |-> [user_id |-> user_id, new_cost |-> new_cost],
               result |-> PyBool(TRUE)]
    /\ UNCHANGED <<milk_records, milk_seq, monthly_summary, session, writer>>

update_password(user_id, new_password) ==
    /\ users' = {IF u.user_id = user_id THEN [u EXCEPT !.password_hash = new_password] ELSE u
                 : u \in users}
    /\ ret' = [op |-> "update_password",
               args |-> [user_id |-> user_id, new_password |-> new_password],
               result |-> PyBool(TRUE)]
    /\ UNCHANGED <<milk_records, milk_seq, monthly_summary, session, writer>>

\* a users table without the uniqueness constraint
username_no_conflict(username) == FALSE

\* username TEXT UNIQUE
username_conflict(username) == \E u \in users : u.username = username

\* the INSERT fails on UNIQUE(username); the except branch returns False
create_user(username, password, base_milk_cost) ==
    LET taken == username_conflict(username) IN
    /\ users' = IF taken THEN users
                ELSE users \cup {[user_id |-> next_user_id, username |-> username,
                                  password_hash |-> password,
                                  base_milk_cost |-> base_milk_cost]}
    /\ ret' = [op |-> "create_user",
               args |-> [username |-> username, password |-> password,
                         base_milk_cost |-> base_milk_cost],
               result |-> PyBool(~taken)]
    /\ UNCHANGED <<milk_records, milk_seq, monthly_summary, session, writer>>

(***************************************************************************)
(* Month seeder, record mutator, aggregator.                               *)
(***************************************************************************)
\* a seeder that constructs a date for any year
seed_raises_month_only(month, year) == month < 1 \/ month > 12

\* calendar.monthrange or datetime(year, month, day) raises before any insert
seed_raises(month, year) ==
    month < 1 \/ month > 12 \/ year < MINYEAR \/ year > MAXYEAR

\* a seeder that always takes the schema's default cost
seed_base_cost_schema(user_id, base_cost) == 104

\* base_cost if given, else the user's base_milk_cost, else 104.00
seed_base_cost(user_id, base_cost) ==
    IF base_cost # PyNone THEN base_cost.val
    ELSE IF \E u \in users : u.user_id = user_id
         THEN (CHOOSE u \in users : u.user_id = user_id).base_milk_cost
         ELSE 104

initialize_month_records(user_id, month, year, base_cost) ==
    LET args == [user_id |-> user_id, month |-> month, year |-> year,
                 base_cost |-> base_cost]
    IN
    /\ IF seed_raises(month, year)
       THEN /\ UNCHANGED <<milk_records, milk_seq>>
            /\ ret' = [op |-> "initialize_month_records", args |-> args,
                       result |-> PyBool(FALSE)]
       ELSE LET num_days == monthrange(year, month)
                db == seed_loop([recs |-> milk_records, seq |-> milk_seq],
                                user_id, month, year,
                                seed_base_cost(user_id, base_cost), num_days)
            IN
            /\ milk_seq + num_days <= MaxRecordId
            /\ milk_records' = db.recs
            /\ milk_seq' = db.seq
            /\ ret' = [op |-> "initialize_month_records", args |-> args,
                       result |-> PyBool(TRUE)]
    /\ UNCHANGED <<users, monthly_summary, session, writer>>

\* an UPDATE without its WHERE clause
update_milk_record_all(record_id, is_taken, base_cost, additional_cost, notes) ==
    /\ milk_records' =
         [i \in 1..Len(milk_records) |->
            LET r == milk_records[i] IN
            milk_row(r.record_id, r.user_id, r.record_date,
                     IF is_taken THEN 1 ELSE 0, base_cost, additional_cost, notes)]
    /\ ret' = [op |-> "update_milk_record",
               args |-> [record_id |-> record_id, is_taken |-> is_taken,
                         base_cost |-> base_cost, additional_cost |-> additional_cost,
                         notes |-> notes],
               result |-> PyBool(TRUE)]
    /\ UNCHANGED <<users, milk_seq, monthly_summary, session, writer>>

\* UPDATE milk_records SET .. WHERE record_id = ?; no row matched is no error
update_milk_record(record_id, is_taken, base_cost, additional_cost, notes) ==
    /\ milk_records' =
         [i \in 1..Len(milk_records) |->
            LET r == milk_records[i] IN
            IF r.record_id = record_id
            THEN milk_row(r.record_id, r.user_id, r.record_date,
                          IF is_taken THEN 1 ELSE 0, base_cost, additional_cost, notes)
            ELSE r]
    /\ ret' = [op |-> "update_milk_record",
               args |-> [record_id |-> record_id, is_taken |-> is_taken,
                         base_cost |-> base_cost, additional_cost |-> additional_cost,
                         notes |-> notes],
               result |-> PyBool(TRUE)]
    /\ UNCHANGED <<users, milk_seq, monthly_summary, session, writer>>

calculate_monthly_summary(user_id, month, year) ==
    LET result == aggregate(milk_records, user_id, month, year)
        total_days == or0(result.total_days)
        milk_taken_days == or0(result.milk_taken_days)
        total_amount == or0(result.total_amount)
        row == [user_id |-> user_id, month |-> month, year |-> year,
                total_days |-> total_days, milk_taken_days |-> milk_taken_days,
                total_amount |-> total_amount]
        args == [user_id |-> user_id, month |-> month, year |-> year]
    IN
    /\ IF summary_checks(month, year)
       THEN /\ monthly_summary' = upsert_summary(monthly_summary, row)
            /\ ret' = [op |-> "calculate_monthly_summary", args |-> args,
                       result |-> PyDict(total_days, milk_taken_days, total_amount)]
       ELSE /\ UNCHANGED monthly_summary
            /\ ret' = [op |-> "calculate_monthly_summary", args |-> args,
                       result |-> PyNone]
    /\ UNCHANGED <<users, milk_records, milk_seq, session, writer>>

(***************************************************************************)
(* initialize_month_records statement by statement, as two sessions run it  *)
(* at the same time.  The first INSERT of a connection opens its            *)
(* transaction and takes the write lock of the database file; the lock is   *)
(* held until the commit, and the rows of the transaction are seen by no    *)
(* other connection before it.  A connection that finds the lock held       *)
(* retries in sqlite3's busy handler and raises OperationalError (database  *)
(* is locked) when the lock is still held after the connection's timeout    *)
(* (sqlite3.connect's default, 5 seconds).                                  *)
(***************************************************************************)
\* the SELECT of the base cost, calendar.monthrange and the first date
seed_begin(s, user_id, month, year) ==
    LET c == [session[s] EXCEPT !.user_id = user_id, !.month = month, !.year = year,
                                !.waited = FALSE]
    IN
    /\ session[s].pc \in {"idle", "returned"}
    /\ IF seed_raises(month, year)
       THEN /\ session' = [session EXCEPT ![s] = returned(c, FALSE, "ValueError")]
            /\ ret' = [op |-> "initialize_month_records",
                       args |-> [user_id |-> user_id, month |-> month, year |-> year,
                                 base_cost |-> PyNone],
                       result |-> PyBool(FALSE)]
       ELSE /\ session' = [session EXCEPT ![s] =
                              [idle EXCEPT !.pc = "loop", !.user_id = user_id,
                                           !.month = month, !.year = year,
                                           !.base_cost = seed_base_cost(user_id, PyNone),
                                           !.num_days = monthrange(year, month),
                                           !.day = 1]]
            /\ UNCHANGED ret
    /\ UNCHANGED <<users, milk_records, milk_seq, monthly_summary, writer>>

\* cursor.execute of the INSERT OR IGNORE for the day the loop is at
seed_execute(s) ==
    LET c == session[s]
        args == [user_id |-> c.user_id, month |-> c.month, year |-> c.year,
                 base_cost |-> PyNone]
    IN
    /\ c.pc \in {"loop", "busy"}
    /\ c.day <= c.num_days
    /\ IF writer = NoWriter \/ writer = s
       THEN LET seq == IF writer = NoWriter THEN milk_seq ELSE c.seq
                r == seed_insert(milk_records \o c.rows, seq, c.user_id, c.month,
                                 c.year, c.day, c.base_cost)
            IN
            /\ writer = NoWriter => milk_seq + c.num_days <= MaxRecordId
            /\ IF r.error = "none"
               THEN /\ writer' = s
                    /\ session' = [session EXCEPT ![s] =
                                      [c EXCEPT !.pc = "loop", !.rows = c.rows \o r.rows,
                                                !.seq = r.seq, !.day = c.day + 1]]
                    /\ UNCHANGED ret
               ELSE /\ writer' = NoWriter
                    /\ session' = [session EXCEPT ![s] = returned(c, FALSE, r.error)]
                    /\ ret' = [op |-> "initialize_month_records", args |-> args,
                               result |-> PyBool(FALSE)]
       ELSE /\ c.pc = "loop"
            /\ session' = [session EXCEPT ![s] = [c EXCEPT !.pc = "busy", !.waited = TRUE]]
            /\ UNCHANGED <<writer, ret>>
    /\ UNCHANGED <<users, milk_records, milk_seq, monthly_summary>>

\* the busy handler gives up: the execute raises, the except branch returns False
seed_busy_timeout(s) ==
    LET c == session[s] IN
    /\ c.pc = "busy"
    /\ writer \notin {NoWriter, s}
    /\ session' = [session EXCEPT ![s] = returned(c, FALSE, "OperationalError")]
    /\ ret' = [op |-> "initialize_month_records",
               args |-> [user_id |-> c.user_id, month |-> c.month, year |-> c.year,
                         base_cost |-> PyNone],
               result |-> PyBool(FALSE)]
    /\ UNCHANGED <<users, milk_records, milk_seq, monthly_summary, writer>>

\* conn.commit(), conn.close(), return True
seed_commit(s) ==
    LET c == session[s] IN
    /\ c.pc = "loop"
    /\ c.day = c.num_days + 1
    /\ writer = s
    /\ milk_records' = milk_records \o c.rows
    /\ milk_seq' = c.seq
    /\ writer' = NoWriter
    /\ session' = [session EXCEPT ![s] = returned(c, TRUE, "none")]
    /\ ret' = [op |-> "initialize_month_records",
               args |-> [user_id |-> c.user_id, month |-> c.month, year |-> c.year,
                         base_cost |-> PyNone],
               result |-> PyBool(TRUE)]
    /\ UNCHANGED <<users, monthly_summary>>

Authenticate ==
    \E username \in Usernames, password \in Secrets : authenticate(username, password)

UpdateBaseMilkCost ==
    \E user_id \in UserIdArgs, new_cost \in DefaultCostArgs :
        update_base_milk_cost(user_id, new_cost)

UpdatePassword ==
    \E user_id \in UserIdArgs, new_password \in Secrets :
        update_password(user_id, new_password)

CreateUser ==
    \E username \in Usernames, password \in Secrets, cost \in DefaultCostArgs :
        create_user(username, password, cost)

InitializeMonthRecords ==
    \E a \in SeedArgs, base_cost \in SeedBaseCostArgs :
        initialize_month_records(a[1], a[2], a[3], base_cost)

UpdateMilkRecord ==
    \E record_id \in RecordIdArgs, is_taken \in BOOLEAN, base_cost \in BaseCostArgs,
       additional_cost \in AdditionalCostArgs, notes \in NotesArgs :
        update_milk_record(record_id, is_taken, base_cost, additional_cost, notes)

\* update_milk_record called with costs of either sign
UpdateMilkRecordAnyCost ==
    \E record_id \in RecordIdArgs, is_taken \in BOOLEAN, base_cost \in AnyBaseCostArgs,
       additional_cost \in AnyAdditionalCostArgs, notes \in NotesArgs :
        update_milk_record(record_id, is_taken, base_cost, additional_cost, notes)

CalculateMonthlySummary ==
    \E a \in SummaryArgs :
        calculate_monthly_summary(a[1], a[2], a[3])

\* the whole program
Next ==
    \/ Authenticate
    \/ UpdateBaseMilkCost
    \/ UpdatePassword
    \/ CreateUser
    \/ InitializeMonthRecords
    \/ UpdateMilkRecord
    \/ CalculateMonthlySummary

Spec == Init /\ [][Next]_vars

\* the account store alone
NextAccount == CreateUser \/ Authenticate \/ UpdatePassword \/ UpdateBaseMilkCost
SpecAccount == Init /\ [][NextAccount]_vars

\* registration, default cost, seeding and record updates
NextSeed == CreateUser \/ UpdateBaseMilkCost \/ InitializeMonthRecords \/ UpdateMilkRecord
SpecSeed == Init /\ [][NextSeed]_vars

\* seeding, record updates and the aggregator
NextSummary == InitializeMonthRecords \/ UpdateMilkRecord \/ CalculateMonthlySummary
SpecSummary == Init /\ [][NextSummary]_vars

SeedBegin == \E s \in Sessions, a \in SessionSeedArgs : seed_begin(s, a[1], a[2], a[3])
SeedExecute == \E s \in Sessions : seed_execute(s)
SeedBusyTimeout == \E s \in Sessions : seed_busy_timeout(s)
SeedCommit == \E s \in Sessions : seed_commit(s)

\* two sessions seeding at the same time
NextConcurrent == SeedBegin \/ SeedExecute \/ SeedBusyTimeout \/ SeedCommit
SpecConcurrent == Init /\ [][NextConcurrent]_vars

\* seeding and record updates with costs of either sign
NextUpdate == InitializeMonthRecords \/ UpdateMilkRecordAnyCost
SpecUpdate == Init /\ [][NextUpdate]_vars

(***************************************************************************)
(* Properties.                                                             *)
(***************************************************************************)
\* the rows of milk_records of one account dated in one month of one year, by
\* calendar arithmetic on the stored date
RowsOf(recs, user_id, month, year) ==
    {i \in 1..Len(recs) : /\ recs[i].user_id = user_id
                          /\ recs[i].record_date \div 100 = year * 100 + month}

\* the number of days of a calendar month
CalendarDays(month, year) ==
    IF month \in {4, 6, 9, 11} THEN 30
    ELSE IF month # 2 THEN 31
    ELSE IF (year % 4 = 0 /\ year % 100 # 0) \/ year % 400 = 0 THEN 29 ELSE 28

LastCall(op) == ret.op = op
Succeeded == ret.result = PyBool(TRUE)

\* C1: every DailyRecord has total = base + additional if it is taken and
\* total = 0 if it is not, in every state that seeds, updates and summaries reach
C1_TotalIsDerived ==
    \A i \in 1..Len(milk_records) :
        LET r == milk_records[i] IN
        /\ r.is_taken \in {0, 1}
        /\ r.is_taken = 1 => r.total_cost = r.base_cost + r.additional_cost
        /\ r.is_taken = 0 => r.total_cost = 0

\* a record that an update marked not taken with nonzero costs, after a summary
C1_Witness ==
    /\ LastCall("calculate_monthly_summary")
    /\ \E i \in 1..Len(milk_records) :
          /\ milk_records[i].is_taken = 0
          /\ milk_records[i].base_cost + milk_records[i].additional_cost # 0
          /\ milk_records[i].total_cost = 0

\* C2: the ledger never holds two DailyRecords with the same (account, date)
C2_OneRecordPerAccountDate ==
    Cardinality({<<milk_records[i].user_id, milk_records[i].record_date>> :
                    i \in 1..Len(milk_records)}) = Len(milk_records)

\* a seed that repeated an earlier one (its inserts were ignored and consumed
\* ids) after an update had edited a row
C2_Witness ==
    /\ LastCall("initialize_month_records") /\ Succeeded
    /\ Len(milk_records) > 0
    /\ milk_seq > Len(milk_records)
    /\ \E i \in 1..Len(milk_records) : milk_records[i].notes # NULL

\* C3: a seed of a month that already has its records succeeds, leaves the
\* number of records of the month unchanged and leaves every record that
\* existed before the call exactly as it was
C3_Step ==
    (/\ ret'.op = "initialize_month_records"
     /\ ~seed_raises(ret'.args.month, ret'.args.year)
     /\ RowsOf(milk_records, ret'.args.user_id, ret'.args.month, ret'.args.year) # {})
    => /\ ret'.result = PyBool(TRUE)
       /\ Cardinality(RowsOf(milk_records', ret'.args.user_id, ret'.args.month,
                             ret'.args.year))
            = Cardinality(RowsOf(milk_records, ret'.args.user_id, ret'.args.month,
                                 ret'.args.year))
       /\ Len(milk_records') >= Len(milk_records)
       /\ \A i \in 1..Len(milk_records) :
             /\ milk_records'[i].record_id = milk_records[i].record_id
             /\ milk_records'[i].user_id = milk_records[i].user_id
             /\ milk_records'[i].record_date = milk_records[i].record_date
             /\ milk_records'[i].is_taken = milk_records[i].is_taken
             /\ milk_records'[i].base_cost = milk_records[i].base_cost
             /\ milk_records'[i].additional_cost = milk_records[i].additional_cost
             /\ milk_records'[i].notes = milk_records[i].notes

C3_SeedIsIdempotent == [][C3_Step]_vars

\* the last call re-seeded a month all of whose rows are older than the call, one
\* of them edited by an update, after the account's default cost had changed
C3_Witness ==
    /\ LastCall("initialize_month_records") /\ Succeeded
    /\ LET rows == RowsOf(milk_records, ret.args.user_id, ret.args.month, ret.args.year)
           n == CalendarDays(ret.args.month, ret.args.year)
       IN /\ Cardinality(rows) = n
          /\ \A i \in rows : milk_records[i].record_id <= milk_seq - n
          /\ \E i \in rows : milk_records[i].notes # NULL /\ milk_records[i].is_taken = 0
          /\ \E u \in users : /\ u.user_id = ret.args.user_id
                              /\ \A i \in rows : milk_records[i].base_cost # u.base_milk_cost

\* C4: after a successful seed of a month in 1..12 the ledger holds exactly one
\* record of the account for each day 1..N of the month and none for another
\* day, N being the length of the month (29 for February 2024, 28 for 2023)
C4_OneRecordPerDay ==
    (LastCall("initialize_month_records") /\ Succeeded /\ ret.args.month \in 1..12) =>
        LET u == ret.args.user_id
            m == ret.args.month
            y == ret.args.year
            n == CalendarDays(m, y)
        IN /\ (m = 2 /\ y = 2024) => n = 29
           /\ (m = 2 /\ y = 2023) => n = 28
           /\ \A day \in 1..n :
                 Cardinality({i \in RowsOf(milk_records, u, m, y) :
                                 milk_records[i].record_date % 100 = day}) = 1
           /\ \A i \in RowsOf(milk_records, u, m, y) :
                 milk_records[i].record_date % 100 \in 1..n

\* February 2024 was just seeded with 29 records, February 2023 holds 28
C4_Witness ==
    /\ LastCall("initialize_month_records") /\ Succeeded
    /\ ret.args.month = 2 /\ ret.args.year = 2024
    /\ Cardinality(RowsOf(milk_records, ret.args.user_id, 2, 2024)) = 29
    /\ Cardinality(RowsOf(milk_records, ret.args.user_id, 2, 2023)) = 28

\* C5: every record a seed(account, month, year) creates is taken, has the
\* account's default cost as stored when the seed is called as its base cost, no
\* additional cost and no note, and its (account, date) had no record before
C5_Step ==
    (ret'.op = "initialize_month_records" /\ ret'.args.base_cost = PyNone) =>
        \A i \in (Len(milk_records) + 1)..Len(milk_records') :
            LET r == milk_records'[i] IN
            /\ r.user_id = ret'.args.user_id
            /\ r.record_date \div 100 = ret'.args.year * 100 + ret'.args.month
            /\ r.is_taken = 1
            /\ \A u \in users : u.user_id = r.user_id => r.base_cost = u.base_milk_cost
            /\ r.additional_cost = 0
            /\ r.notes = NULL
            /\ ~\E j \in 1..Len(milk_records) :
                  /\ milk_records[j].user_id = r.user_id
                  /\ milk_records[j].record_date = r.record_date

C5_SeededRecordDefaults == [][C5_Step]_vars

\* the last seed created the rows of a month at a default cost of 50, in a
\* ledger that holds rows created at another cost
C5_Witness ==
    /\ LastCall("initialize_month_records") /\ Succeeded
    /\ \E i, j \in 1..Len(milk_records) :
          /\ milk_records[i].record_id > milk_seq - CalendarDays(ret.args.month, ret.args.year)
          /\ milk_records[i].user_id = ret.args.user_id
          /\ milk_records[i].base_cost = 50
          /\ milk_records[j].base_cost = 104

RECURSIVE WeightedSum(_)
\* the sum of v * n over the pairs <<v, n>> of a set
WeightedSum(pairs) ==
    IF pairs = {} THEN 0
    ELSE LET p == CHOOSE x \in pairs : TRUE IN
         p[1] * p[2] + WeightedSum(pairs \ {p})

\* the taken rows among a set of rows, and what they cost together: each
\* distinct daily cost times the number of taken rows that have it
TakenOf(rows) == {i \in rows : milk_records[i].is_taken = 1}
CostOf(i) == milk_records[i].base_cost + milk_records[i].additional_cost
AmountOf(rows) ==
    WeightedSum({<<c, Cardinality({i \in TakenOf(rows) : CostOf(i) = c})>> :
                    c \in {CostOf(i) : i \in TakenOf(rows)}})

\* the triple a summary of the rows is to return
TripleOf(rows) == PyDict(Cardinality(rows), Cardinality(TakenOf(rows)), AmountOf(rows))

\* the month and year monthly_summary accepts
SummaryKeyValid(month, year) == month \in 1..12 /\ year \in 2020..2100

\* C6 as stated: for every account, month and year summarize returns the number
\* of the account's records of the month, the number of them taken and the sum
\* of base + additional over the taken ones
C6_Original ==
    LastCall("calculate_monthly_summary") =>
        ret.result = TripleOf(RowsOf(milk_records, ret.args.user_id, ret.args.month,
                                     ret.args.year))

\* C6 amended: for a month in 1..12 and a year in 2020..2100 summarize returns
\* that triple ({0, 0, 0} with no records, {30, 30, 3120} for a freshly seeded
\* April at a default cost of 104); for any other month or year it returns none
C6_SummaryTriple ==
    LastCall("calculate_monthly_summary") =>
        LET rows == RowsOf(milk_records, ret.args.user_id, ret.args.month, ret.args.year)
        IN IF SummaryKeyValid(ret.args.month, ret.args.year)
           THEN /\ ret.result = TripleOf(rows)
                /\ rows = {} => ret.result = PyDict(0, 0, 0)
                /\ (/\ ret.args.month = 4
                    /\ Cardinality(rows) = 30
                    /\ \A i \in rows : /\ milk_records[i].is_taken = 1
                                       /\ milk_records[i].base_cost = 104
                                       /\ milk_records[i].additional_cost = 0)
                   => ret.result = PyDict(30, 30, 3120)
           ELSE ret.result = PyNone

\* a summary of a month with a record not taken, in a ledger that holds the
\* records of another month too
C6_Witness ==
    /\ LastCall("calculate_monthly_summary")
    /\ ret.result.tag = "dict"
    /\ ret.result.milk_taken_days >= 1
    /\ ret.result.total_days > ret.result.milk_taken_days
    /\ Len(milk_records) > ret.result.total_days

\* what C7 asks of a summary for each record of its month that is not taken
\* though its costs are nonzero
C7_Excluded(rows) ==
    \A i \in rows :
        (/\ milk_records[i].is_taken = 0
         /\ (milk_records[i].base_cost # 0 \/ milk_records[i].additional_cost # 0))
        => /\ ret.result.tag = "dict"
           /\ ret.result.total_amount = AmountOf(rows \ {i})
           /\ ret.result.milk_taken_days = Cardinality(TakenOf(rows \ {i}))
           /\ ret.result.total_days = Cardinality(rows \ {i}) + 1

\* C7 as stated: a summary of the month of a record that was updated to not
\* taken with nonzero costs has no contribution of that record in total_amount,
\* does not count it in taken_days and counts it in total_days
C7_Original ==
    LastCall("calculate_monthly_summary") =>
        C7_Excluded(RowsOf(milk_records, ret.args.user_id, ret.args.month, ret.args.year))

\* C7 amended: the same for a record dated in a year 2020..2100
C7_UntakenContributesNothing ==
    (LastCall("calculate_monthly_summary") /\ ret.args.year \in 2020..2100) =>
        C7_Excluded(RowsOf(milk_records, ret.args.user_id, ret.args.month, ret.args.year))

\* a summary of a month seeded at 104 a day, one record of which an update left
\* not taken at costs 40 + 5
C7_Witness ==
    /\ LastCall("calculate_monthly_summary")
    /\ ret.result.tag = "dict"
    /\ LET rows == RowsOf(milk_records, ret.args.user_id, ret.args.month, ret.args.year)
       IN /\ \E i \in rows : /\ milk_records[i].is_taken = 0
                             /\ milk_records[i].base_cost = 40
                             /\ milk_records[i].additional_cost = 5
          /\ ret.result.total_days = Cardinality(rows)
          /\ ret.result.milk_taken_days = Cardinality(rows) - 1
          /\ ret.result.total_amount = 104 * (Cardinality(rows) - 1)

SameSummaryKey(s, t) == s.user_id = t.user_id /\ s.month = t.month /\ s.year = t.year

\* C8: there is at most one MonthlySummary per (account, month, year); a
\* successful summarize leaves the summary stored for its key equal to the
\* triple it returns and changes no summary stored under another key
C8_Step ==
    /\ \A s, t \in monthly_summary' : SameSummaryKey(s, t) => s = t
    /\ (ret'.op = "calculate_monthly_summary" /\ ret'.result.tag = "dict") =>
          /\ \E s \in monthly_summary' :
                /\ SameSummaryKey(s, ret'.args)
                /\ s.total_days = ret'.result.total_days
                /\ s.milk_taken_days = ret'.result.milk_taken_days
                /\ s.total_amount = ret'.result.total_amount
          /\ \A s \in monthly_summary : ~SameSummaryKey(s, ret'.args) => s \in monthly_summary'
          /\ \A s \in monthly_summary' : ~SameSummaryKey(s, ret'.args) => s \in monthly_summary

C8_SummaryUpsert == [][C8_Step]_vars

\* two summaries are stored and the last call wrote one that counts a record
\* not taken
C8_Witness ==
    /\ LastCall("calculate_monthly_summary")
    /\ ret.result.tag = "dict"
    /\ Cardinality(monthly_summary) = 2
    /\ \E s \in monthly_summary : /\ SameSummaryKey(s, ret.args)
                                  /\ s.total_days >= 28
                                  /\ s.milk_taken_days = s.total_days - 1

\* C9: registering a username an account already has fails, creates no account
\* and leaves the accounts as they were; usernames stay unique
C9_Step ==
    /\ \A u, v \in users' : u.username = v.username => u = v
    /\ (ret'.op = "create_user" /\ \E u \in users : u.username = ret'.args.username) =>
          /\ ret'.result = PyBool(FALSE)
          /\ users' = users

C9_DuplicateUsernameRejected == [][C9_Step]_vars

\* a registration of the username of a registered second account has failed
C9_Witness ==
    /\ LastCall("create_user")
    /\ ret.result = PyBool(FALSE)
    /\ ret.args.username = "amy"
    /\ Cardinality(users) = 2

\* C10: an update whose record_id names no DailyRecord does not report success
\* and changes no record
C10_Step ==
    (/\ ret'.op = "update_milk_record"
     /\ ~\E i \in 1..Len(milk_records) : milk_records[i].record_id = ret'.args.record_id)
    => /\ ret'.result # PyBool(TRUE)
       /\ milk_records' = milk_records

C10_MissingRecordIsAnError == [][C10_Step]_vars

\* C11: a seed called with a month outside 1..12 or with a year no date has
\* (before year 1, after year 9999) reports failure and leaves the ledger, and
\* the counter of its record ids, as they were
C11_Step ==
    (/\ ret'.op = "initialize_month_records"
     /\ (ret'.args.month \notin 1..12 \/ ret'.args.year \notin 1..9999))
    => /\ ret'.result = PyBool(FALSE)
       /\ milk_records' = milk_records
       /\ milk_seq' = milk_seq

C11_InvalidSeedInsertsNothing == [][C11_Step]_vars

\* a seed of April of the year 10000 has failed on a ledger that holds a month
\* of records, one of them edited
C11_Witness ==
    /\ LastCall("initialize_month_records")
    /\ ret.result = PyBool(FALSE)
    /\ ret.args.year = 10000
    /\ Len(milk_records) >= 28
    /\ \E i \in 1..Len(milk_records) : milk_records[i].notes # NULL

\* C12: every DailyRecord has base cost >= 0 and additional cost >= 0, and an
\* update of an existing record that carries a negative base_cost or a negative
\* additional_cost does not report success and leaves the records as they were
C12_Step ==
    /\ \A i \in 1..Len(milk_records') :
          milk_records'[i].base_cost >= 0 /\ milk_records'[i].additional_cost >= 0
    /\ (/\ ret'.op = "update_milk_record"
        /\ \E i \in 1..Len(milk_records) : milk_records[i].record_id = ret'.args.record_id
        /\ (ret'.args.base_cost < 0 \/ ret'.args.additional_cost < 0))
       => /\ ret'.result # PyBool(TRUE)
          /\ milk_records' = milk_records

C12_NegativeCostRejected == [][C12_Step]_vars

\* two sessions whose seeds of the same account, month in 1..12 and year have
\* both returned
SamePairReturned(s, t) ==
    /\ s # t
    /\ session[s].pc = "returned" /\ session[t].pc = "returned"
    /\ session[s].user_id = session[t].user_id
    /\ session[s].month = session[t].month
    /\ session[s].year = session[t].year
    /\ session[s].month \in 1..12

\* the ledger holds exactly one record of the account for each day of the month
\* and no two records with the same (account, date)
MonthComplete(user_id, month, year) ==
    /\ \A day \in 1..CalendarDays(month, year) :
          Cardinality({i \in RowsOf(milk_records, user_id, month, year) :
                          milk_records[i].record_date % 100 = day}) = 1
    /\ \A i \in RowsOf(milk_records, user_id, month, year) :
          milk_records[i].record_date % 100 \in 1..CalendarDays(month, year)
    /\ \A i, j \in 1..Len(milk_records) :
          (/\ milk_records[i].user_id = milk_records[j].user_id
           /\ milk_records[i].record_date = milk_records[j].record_date) => i = j

\* C13 as stated: when two seeds of the same account, month and year have run
\* with their statements interleaved in any order, both have reported success
\* and the ledger holds exactly one record per calendar day of the month and
\* no duplicate (account, date)
C13_Original ==
    \A s, t \in Sessions :
        SamePairReturned(s, t) =>
            /\ session[s].result = PyBool(TRUE)
            /\ session[t].result = PyBool(TRUE)
            /\ MonthComplete(session[s].user_id, session[s].month, session[s].year)

\* C13 amended: each of the two seeds has reported success, or has reported
\* failure because it found the database locked by the other until its timeout
\* ran out; at least one has reported success, and the ledger holds exactly one
\* record per calendar day of the month and no duplicate (account, date)
C13_ConcurrentSeeds ==
    \A s, t \in Sessions :
        SamePairReturned(s, t) =>
            /\ \A x \in {s, t} : \/ session[x].result = PyBool(TRUE)
                                  \/ /\ session[x].result = PyBool(FALSE)
                                     /\ session[x].error = "OperationalError"
                                     /\ session[x].waited
            /\ \E x \in {s, t} : session[x].result = PyBool(TRUE)
            /\ MonthComplete(session[s].user_id, session[s].month, session[s].year)

\* both seeds of February 2024 have reported success, one of them after it had
\* waited for the lock the other held; the 29 records are there and the second
\* seed's ignored inserts took 29 ids more
C13_Witness ==
    /\ SamePairReturned("s1", "s2")
    /\ session["s1"].result = PyBool(TRUE)
    /\ session["s2"].result = PyBool(TRUE)
    /\ session["s1"].waited \/ session["s2"].waited
    /\ session["s1"].month = 2 /\ session["s1"].year = 2024
    /\ Len(milk_records) = 29
    /\ milk_seq = 58

\* the accounts that existed before a step keep their id, username and secret
SecretsKept(except_id) ==
    \A u \in users : u.user_id # except_id =>
        \E v \in users' : /\ v.user_id = u.user_id
                           /\ v.username = u.username
                           /\ v.password_hash = u.password_hash

\* C14: authenticate(username, secret) returns the id of the account with that
\* username exactly when there is one and its stored secret equals the supplied
\* one, and none otherwise; update_secret(account, new) makes new the stored
\* secret of that account and of no other, and register and update_default_cost
\* change no stored secret
C14_Step ==
    /\ ret'.op = "authenticate" =>
          /\ users' = users
          /\ \A u \in users :
                (u.username = ret'.args.username /\ u.password_hash = ret'.args.password)
                => ret'.result = PyInt(u.user_id)
          /\ (~\E u \in users : /\ u.username = ret'.args.username
                                 /\ u.password_hash = ret'.args.password)
             => ret'.result = PyNone
    /\ ret'.op = "update_password" =>
          /\ SecretsKept(ret'.args.user_id)
          /\ \A u \in users : u.user_id = ret'.args.user_id =>
                \E v \in users' : /\ v.user_id = u.user_id
                                   /\ v.username = u.username
                                   /\ v.password_hash = ret'.args.new_password
          /\ Cardinality(users') = Cardinality(users)
    /\ ret'.op \in {"create_user", "update_base_milk_cost"} => SecretsKept(0)

C14_AuthenticateChecksStoredSecret == [][C14_Step]_vars

\* after a change of demo's secret from "demo" to "pw" the old secret has been
\* refused, in a store that holds a second account
C14_Witness ==
    /\ LastCall("authenticate")
    /\ ret.args.username = "demo" /\ ret.args.password = "demo"
    /\ ret.result = PyNone
    /\ \E u \in users : u.username = "demo" /\ u.password_hash = "pw"
    /\ Cardinality(users) = 2

\* C15: a change of an account's default cost changes no DailyRecord; a seed
\* changes no DailyRecord that exists and gives the records it creates the
\* default cost the account has when the seed is called
C15_Step ==
    /\ ret'.op = "update_base_milk_cost" =>
          /\ milk_records' = milk_records
          /\ \A v \in users' : v.user_id = ret'.args.user_id =>
                v.base_milk_cost = ret'.args.new_cost
    /\ ret'.op = "initialize_month_records" =>
          /\ Len(milk_records') >= Len(milk_records)
          /\ \A i \in 1..Len(milk_records) : milk_records'[i] = milk_records[i]
          /\ \A i \in (Len(milk_records) + 1)..Len(milk_records') :
                \A u \in users : u.user_id = milk_records'[i].user_id =>
                    milk_records'[i].base_cost = u.base_milk_cost

C15_DefaultCostLeavesRecords == [][C15_Step]_vars

\* demo's default cost has just been set to 50 while the ledger holds demo's
\* records of two months, the older at 104 a day and the newer at 50, and one
\* of them edited
C15_Witness ==
    /\ LastCall("update_base_milk_cost")
    /\ ret.args.user_id = 1 /\ ret.args.new_cost = 50
    /\ \E u \in users : u.user_id = 1 /\ u.base_milk_cost = 50
    /\ \E i, j, k \in 1..Len(milk_records) :
          /\ i < j
          /\ milk_records[i].user_id = 1 /\ milk_records[i].base_cost = 104
          /\ milk_records[j].user_id = 1 /\ milk_records[j].base_cost = 50
          /\ milk_records[k].base_cost = 40

\* C16: an update changes only the record with its record_id: that record's
\* taken, base cost, additional cost and note become the arguments, its id,
\* account and date stay, every other record stays as it was, and no record is
\* created or deleted
C16_Step ==
    ret'.op = "update_milk_record" =>
        /\ Len(milk_records') = Len(milk_records)
        /\ milk_seq' = milk_seq
        /\ \A i \in 1..Len(milk_records) :
              LET r == milk_records[i]
                  q == milk_records'[i]
              IN IF r.record_id = ret'.args.record_id
                 THEN /\ q.is_taken = (IF ret'.args.is_taken THEN 1 ELSE 0)
                      /\ q.base_cost = ret'.args.base_cost
                      /\ q.additional_cost = ret'.args.additional_cost
                      /\ q.notes = ret'.args.notes
                      /\ q.record_id = r.record_id
                      /\ q.user_id = r.user_id
                      /\ q.record_date = r.record_date
                 ELSE q = r
        /\ {<<milk_records'[i].user_id, milk_records'[i].record_date>> :
               i \in 1..Len(milk_records')}
           = {<<milk_records[i].user_id, milk_records[i].record_date>> :
                i \in 1..Len(milk_records)}

C16_UpdateTouchesOneRecord == [][C16_Step]_vars

\* record 31 has just been updated in a ledger of two months in which record 1
\* carries an earlier update with another taken flag and the rest are as seeded
C16_Witness ==
    /\ LastCall("update_milk_record")
    /\ ret.args.record_id = 31
    /\ Len(milk_records) >= 57
    /\ \E i, j, k \in 1..Len(milk_records) :
          /\ milk_records[i].record_id = 31
          /\ milk_records[i].notes = "late"
          /\ milk_records[i].is_taken = (IF ret.args.is_taken THEN 1 ELSE 0)
          /\ milk_records[j].record_id = 1
          /\ milk_records[j].notes = "late"
          /\ milk_records[j].is_taken # milk_records[i].is_taken
          /\ milk_records[k].notes = NULL

====
